---- MODULE Spec2Model ----
(***************************************************************************)
(* nano-vue-i18n: the translation resolver built by createI18n             *)
(* (src/src/index.ts, lines 1-328).  Strings are sequences of one-character*)
(* strings, so that concatenation, the whitespace-pipe regex, trim and the *)
(* placeholder regex are computed character by character.                  *)
(***************************************************************************)
EXTENDS Integers, Sequences, FiniteSets, TLC

\* Largest magnitude of a pluralization count the callers pass.
MaxCount == 2

\* Largest length of the string leaf of a one-leaf message tree.
MaxLeafLen == 5

\* Largest number handed to the built-in rules directly.
MaxMagnitude == 125

(***************************************************************************)
(* Characters and strings                                                  *)
(***************************************************************************)
\* '\x01', the separator of plural forms inside an index value
NANO_VUE_I18N_PLURAL_SEPARATOR == "^A"

\* the class \s of the regexes (the characters of it the inputs use)
IsSpace(c) == c \in {" ", "\t", "\n"}

\* the class \w of PARAM_REGEX
IsWord(c) ==
    c \in {"a", "b", "c", "d", "e", "f", "g", "h", "i", "j", "k", "l", "m",
           "n", "o", "p", "q", "r", "s", "t", "u", "v", "w", "x", "y", "z",
           "A", "B", "C", "D", "E", "F", "G", "H", "I", "J", "K", "L", "M",
           "N", "O", "P", "Q", "R", "S", "T", "U", "V", "W", "X", "Y", "Z",
           "0", "1", "2", "3", "4", "5", "6", "7", "8", "9", "_"}

Min(a, b) == IF a <= b THEN a ELSE b

Abs(n) == IF n < 0 THEN 0 - n ELSE n

\* length of the maximal run of \s characters of s that starts at position i
RECURSIVE SpaceRun(_, _)
SpaceRun(s, i) ==
    IF i > Len(s) \/ ~IsSpace(s[i]) THEN 0 ELSE 1 + SpaceRun(s, i + 1)

\* length of the maximal run of \w characters of s that starts at position i
RECURSIVE WordRun(_, _)
WordRun(s, i) ==
    IF i > Len(s) \/ ~IsWord(s[i]) THEN 0 ELSE 1 + WordRun(s, i + 1)

\* String.prototype.trim
RECURSIVE TrimLeft(_)
TrimLeft(s) ==
    IF s # <<>> /\ IsSpace(Head(s)) THEN TrimLeft(Tail(s)) ELSE s

RECURSIVE TrimRight(_)
TrimRight(s) ==
    IF s # <<>> /\ IsSpace(s[Len(s)])
    THEN TrimRight(SubSeq(s, 1, Len(s) - 1)) ELSE s

Trim(s) == TrimRight(TrimLeft(s))

\* String.prototype.includes for a one-character needle
Includes(s, c) == \E i \in 1..Len(s) : s[i] = c

\* String.prototype.split for a one-character separator
RECURSIVE Split(_, _)
Split(s, c) ==
    IF ~Includes(s, c) THEN <<s>>
    ELSE LET i == CHOOSE j \in 1..Len(s) :
                      s[j] = c /\ \A k \in 1..(j - 1) : s[k] # c
         IN <<SubSeq(s, 1, i - 1)>> \o Split(SubSeq(s, i + 1, Len(s)), c)

\* Array.prototype.join for a one-character separator
RECURSIVE Join(_, _)
Join(items, c) ==
    IF items = <<>> THEN <<>>
    ELSE IF Len(items) = 1 THEN items[1]
    ELSE items[1] \o <<c>> \o Join(Tail(items), c)

\* value.replace(PLURAL_REGEX, separator) with PLURAL_REGEX = /\s*\|\s*/g:
\* a match starts at i when the maximal whitespace run from i is followed by
\* a pipe, and it extends over the whitespace after that pipe.
\* a bug: the regex lacks the g flag, only the first match is replaced
ReplacePlural_first(s, i) ==
    LET bars == {b \in i..Len(s) : s[b] = "|"}
    IN IF bars = {} THEN SubSeq(s, i, Len(s))
       ELSE LET bar  == CHOOSE b \in bars : \A x \in bars : b <= x
                from == CHOOSE f \in i..bar :
                           /\ \A x \in f..(bar - 1) : IsSpace(s[x])
                           /\ f > i => ~IsSpace(s[f - 1])
            IN SubSeq(s, i, from - 1) \o <<NANO_VUE_I18N_PLURAL_SEPARATOR>>
               \o SubSeq(s, bar + 1 + SpaceRun(s, bar + 1), Len(s))

RECURSIVE ReplacePlural(_, _)
ReplacePlural(s, i) ==
    IF i > Len(s) THEN <<>>
    ELSE LET lead == SpaceRun(s, i)
             bar  == i + lead
         IN IF bar <= Len(s) /\ s[bar] = "|"
            THEN <<NANO_VUE_I18N_PLURAL_SEPARATOR>>
                 \o ReplacePlural(s, bar + 1 + SpaceRun(s, bar + 1))
            ELSE <<s[i]>> \o ReplacePlural(s, i + 1)

(***************************************************************************)
(* Maps (JavaScript Map): functions from string to value                   *)
(***************************************************************************)
EmptyMap == << >>

Has(map, k) == k \in DOMAIN map

\* a bug: a key that is present keeps its value
MapSet_keepFirst(map, k, v) ==
    IF k \in DOMAIN map THEN map
    ELSE [x \in (DOMAIN map) \cup {k} |-> IF x = k THEN v ELSE map[x]]

\* Map.prototype.set
MapSet(map, k, v) ==
    [x \in (DOMAIN map) \cup {k} |-> IF x = k THEN v ELSE map[x]]

\* for (const [k, v] of other) map.set(k, v)
MapSetAll(map, other) ==
    [x \in (DOMAIN map) \cup (DOMAIN other) |->
        IF x \in DOMAIN other THEN other[x] ELSE map[x]]

(***************************************************************************)
(* Message trees.  An object is the sequence of its entries in for-in      *)
(* order; a value is a string, an array of strings, an object or another   *)
(* value (number, null, boolean).                                          *)
(***************************************************************************)
StrLeaf(s)   == [type |-> "string", str |-> s]
ArrLeaf(a)   == [type |-> "array", items |-> a]
Obj(entries) == [type |-> "object", entries |-> entries]
Other        == [type |-> "other"]
Entry(k, v)  == [key |-> k, value |-> v]

\* a bug: the nested key is appended without the dot
FullKey_noDot(prefix, key) == prefix \o key

\* prefix ? `${prefix}.${key}` : key
FullKey(prefix, key) ==
    IF prefix # << >> THEN prefix \o <<".">> \o key ELSE key

\* a bug: the recursion is given the key instead of the full key
RECURSIVE flattenMessages_dropPrefix(_, _)
flattenMessages_dropPrefix(messages, prefix) ==
    LET RECURSIVE Loop(_, _)
        Loop(i, result) ==
            IF i > Len(messages) THEN result
            ELSE LET key     == messages[i].key
                     fullKey == FullKey(prefix, key)
                     value   == messages[i].value
                 IN Loop(i + 1,
                      CASE value.type = "string" ->
                             MapSet(result, fullKey,
                                    ReplacePlural(value.str, 1))
                        [] value.type = "array" ->
                             MapSet(result, fullKey,
                                    Join(value.items,
                                         NANO_VUE_I18N_PLURAL_SEPARATOR))
                        [] value.type = "object" ->
                             MapSetAll(result,
                                       flattenMessages_dropPrefix(
                                           value.entries, key))
                        [] OTHER -> result)
    IN Loop(1, EmptyMap)

\* a bug: a value of another type is stored as String(value)
RECURSIVE flattenMessages_stringify(_, _)
flattenMessages_stringify(messages, prefix) ==
    LET RECURSIVE Loop(_, _)
        Loop(i, result) ==
            IF i > Len(messages) THEN result
            ELSE LET key     == messages[i].key
                     fullKey == FullKey(prefix, key)
                     value   == messages[i].value
                 IN Loop(i + 1,
                      CASE value.type = "string" ->
                             MapSet(result, fullKey,
                                    ReplacePlural(value.str, 1))
                        [] value.type = "array" ->
                             MapSet(result, fullKey,
                                    Join(value.items,
                                         NANO_VUE_I18N_PLURAL_SEPARATOR))
                        [] value.type = "object" ->
                             MapSetAll(result,
                                       flattenMessages_stringify(
                                           value.entries, fullKey))
                        [] OTHER -> MapSet(result, fullKey, <<"5">>))
    IN Loop(1, EmptyMap)

RECURSIVE flattenMessages(_, _)
flattenMessages(messages, prefix) ==
    LET RECURSIVE Loop(_, _)
        Loop(i, result) ==
            IF i > Len(messages) THEN result
            ELSE LET key     == messages[i].key
                     fullKey == FullKey(prefix, key)
                     value   == messages[i].value
                 IN Loop(i + 1,
                      CASE value.type = "string" ->
                             MapSet(result, fullKey,
                                    ReplacePlural(value.str, 1))
                        [] value.type = "array" ->
                             MapSet(result, fullKey,
                                    Join(value.items,
                                         NANO_VUE_I18N_PLURAL_SEPARATOR))
                        [] value.type = "object" ->
                             MapSetAll(result,
                                       flattenMessages(value.entries, fullKey))
                        [] OTHER -> result)
    IN Loop(1, EmptyMap)

\* a bug: every entry gets a list of forms, also one without a separator
constructPluralizationFormsMap_all(translationMap_) ==
    [k \in DOMAIN translationMap_ |->
        LET parts == Split(translationMap_[k],
                           NANO_VUE_I18N_PLURAL_SEPARATOR)
        IN [i \in 1..Len(parts) |-> Trim(parts[i])]]

\* a bug: the forms are stored as split, untrimmed
constructPluralizationFormsMap_noTrim(translationMap_) ==
    LET plural == {k \in DOMAIN translationMap_ :
                     Includes(translationMap_[k],
                              NANO_VUE_I18N_PLURAL_SEPARATOR)}
    IN [k \in plural |->
          Split(translationMap_[k], NANO_VUE_I18N_PLURAL_SEPARATOR)]

constructPluralizationFormsMap(translationMap_) ==
    LET plural == {k \in DOMAIN translationMap_ :
                     Includes(translationMap_[k],
                              NANO_VUE_I18N_PLURAL_SEPARATOR)}
    IN [k \in plural |->
          LET parts == Split(translationMap_[k],
                             NANO_VUE_I18N_PLURAL_SEPARATOR)
          IN [i \in 1..Len(parts) |-> Trim(parts[i])]]

(***************************************************************************)
(* Pluralization rules.  A rule is named; the Rule Table maps a locale to  *)
(* the name of its rule.                                                   *)
(***************************************************************************)
L_zh   == <<"z", "h">>
L_zhCN == <<"z", "h", "-", "C", "N">>
L_zhTW == <<"z", "h", "-", "T", "W">>
L_en   == <<"e", "n">>
L_ja   == <<"j", "a">>
L_ko   == <<"k", "o">>
L_fr   == <<"f", "r">>
L_de   == <<"d", "e">>
L_es   == <<"e", "s">>
L_ru   == <<"r", "u">>
L_pl   == <<"p", "l">>
L_ar   == <<"a", "r">>
L_pt   == <<"p", "t">>

\* the keys of defaultPluralRules, each with the name of its rule
defaultPluralRules ==
    (L_zh :> "zh") @@ (L_zhCN :> "zh-CN") @@ (L_zhTW :> "zh-TW") @@
    (L_en :> "en") @@ (L_ja :> "ja") @@ (L_ko :> "ko") @@ (L_fr :> "fr") @@
    (L_de :> "de") @@ (L_es :> "es") @@ (L_ru :> "ru") @@ (L_pl :> "pl") @@
    (L_ar :> "ar")

\* a bug: 11, 111, ... are treated like 1, 21, ...
Rule_ru_teens(n) ==
    LET mod10  == n % 10
        mod100 == n % 100
    IN IF mod10 = 1 THEN 0
       ELSE IF mod10 >= 2 /\ mod10 <= 4 /\ (mod100 < 10 \/ mod100 >= 20)
            THEN 1
       ELSE 2

\* defaultPluralRules.ru
Rule_ru(n) ==
    LET mod10  == n % 10
        mod100 == n % 100
    IN IF mod10 = 1 /\ mod100 # 11 THEN 0
       ELSE IF mod10 >= 2 /\ mod10 <= 4 /\ (mod100 < 10 \/ mod100 >= 20)
            THEN 1
       ELSE 2

\* a bug: the few-range is tested on n instead of n % 100
Rule_ar_noMod(n) ==
    IF n = 0 THEN 0
    ELSE IF n = 1 THEN 1
    ELSE IF n = 2 THEN 2
    ELSE IF n >= 3 /\ n <= 10 THEN 3
    ELSE IF n % 100 >= 11 /\ n % 100 <= 99 THEN 4
    ELSE 5

\* defaultPluralRules.ar
Rule_ar(n) ==
    IF n = 0 THEN 0
    ELSE IF n = 1 THEN 1
    ELSE IF n = 2 THEN 2
    ELSE IF n % 100 >= 3 /\ n % 100 <= 10 THEN 3
    ELSE IF n % 100 >= 11 /\ n % 100 <= 99 THEN 4
    ELSE 5

\* a bug: the test n === 1 is left out
Rule_pl_noOne(n) ==
    LET mod10  == n % 10
        mod100 == n % 100
    IN IF mod10 >= 2 /\ mod10 <= 4 /\ (mod100 < 10 \/ mod100 >= 20)
       THEN 1
       ELSE 2

\* defaultPluralRules.pl
Rule_pl(n) ==
    IF n = 1 THEN 0
    ELSE LET mod10  == n % 10
             mod100 == n % 100
         IN IF mod10 >= 2 /\ mod10 <= 4 /\ (mod100 < 10 \/ mod100 >= 20)
            THEN 1
            ELSE 2

\* the bodies of the rules of defaultPluralRules
BuiltinRule(rule, n) ==
    CASE rule = "zh"    -> 0
      [] rule = "zh-CN" -> 0
      [] rule = "zh-TW" -> 0
      [] rule = "en"    -> IF n = 1 THEN 0 ELSE 1
      [] rule = "ja"    -> 0
      [] rule = "ko"    -> 0
      [] rule = "fr"    -> IF n = 0 \/ n = 1 THEN 0 ELSE 1
      [] rule = "de"    -> IF n = 1 THEN 0 ELSE 1
      [] rule = "es"    -> IF n = 1 THEN 0 ELSE 1
      [] rule = "ru"    -> Rule_ru(n)
      [] rule = "pl"    -> Rule_pl(n)
      [] rule = "ar"    -> Rule_ar(n)

\* the rule applyPlural uses when neither locale has one: (n) => n === 1 ? 0 : 1
UniversalRule(n) == IF n = 1 THEN 0 ELSE 1

\* Rules a caller passes in customPluralRules: "identity" is (n) => n, whose
\* index exceeds the number of forms for large n; "minusTwo" is (n) => n - 2,
\* whose index is negative for n < 2.
CustomRuleNames == {"identity", "minusTwo"}

CustomRule(rule, n) == IF rule = "identity" THEN n ELSE n - 2

\* rule(n) for a rule of the Rule Table or the universal one
CallRule(rule, n) ==
    IF rule = "universal" THEN UniversalRule(n)
    ELSE IF rule \in CustomRuleNames THEN CustomRule(rule, n)
    ELSE BuiltinRule(rule, n)

\* a bug: the caller's rules replace the whole built-in table
constructPluralizationRulesMap_customOnly(customRules) ==
    IF ~customRules.given THEN defaultPluralRules ELSE customRules.rules

\* customRules: [given |-> FALSE] is the option left undefined
constructPluralizationRulesMap(customRules) ==
    LET result == defaultPluralRules
    IN IF ~customRules.given THEN result
       ELSE MapSetAll(result, customRules.rules)

(***************************************************************************)
(* JavaScript values a call produces                                        *)
(***************************************************************************)
JSString(s) == [kind |-> "string", value |-> s]
Undefined   == [kind |-> "undefined", value |-> << >>]
\* a TypeError propagating out of the call
Thrown      == [kind |-> "throw", value |-> << >>]

\* the properties every plain object inherits from Object.prototype that the
\* `in` operator finds, with String(value) of each
ObjectPrototype ==
    (<<"t", "o", "S", "t", "r", "i", "n", "g">> :>
        <<"f", "u", "n", "c", "t", "i", "o", "n", " ", "t", "o", "S", "t", "r", "i", "n", "g", "(", ")", " ", "{", " ", "[", "n", "a", "t", "i", "v", "e", " ", "c", "o", "d", "e", "]", " ", "}">>)
    @@ (<<"c", "o", "n", "s", "t", "r", "u", "c", "t", "o", "r">> :>
        <<"f", "u", "n", "c", "t", "i", "o", "n", " ", "O", "b", "j", "e", "c", "t", "(", ")", " ", "{", " ", "[", "n", "a", "t", "i", "v", "e", " ", "c", "o", "d", "e", "]", " ", "}">>)

\* paramName in currentParams
In(paramName, currentParams) ==
    Has(currentParams, paramName) \/ Has(ObjectPrototype, paramName)

\* String(currentParams[paramName])
StringOf(currentParams, paramName) ==
    IF Has(currentParams, paramName) THEN currentParams[paramName]
    ELSE ObjectPrototype[paramName]

\* template.replace(PARAM_REGEX, ...) with PARAM_REGEX = /\{(\w+)\}/g: a match
\* starts at a "{" that is followed by a non-empty maximal run of \w and "}".
RECURSIVE ReplaceParams(_, _, _)
ReplaceParams(s, i, currentParams) ==
    IF i > Len(s) THEN << >>
    ELSE LET run   == WordRun(s, i + 1)
             close == i + run + 1
         IN IF s[i] = "{" /\ run >= 1 /\ close <= Len(s) /\ s[close] = "}"
            THEN LET paramName == SubSeq(s, i + 1, i + run)
                     match     == SubSeq(s, i, close)
                 IN (IF In(paramName, currentParams)
                     THEN StringOf(currentParams, paramName)
                     ELSE match)
                    \o ReplaceParams(s, close + 1, currentParams)
            ELSE <<s[i]>> \o ReplaceParams(s, i + 1, currentParams)

\* params: [given |-> FALSE] is the argument left out; otherwise value is the
\* object the argument is or, for a Ref, holds
NoParams    == [given |-> FALSE, isRef |-> FALSE, value |-> EmptyMap]
unref(params) == params.value

\* a bug: the result of the replacement is expanded once more
interpolate_again(template, params) ==
    IF ~params.given THEN template
    ELSE IF template.kind # "string" THEN Thrown
    ELSE JSString(ReplaceParams(ReplaceParams(template.value, 1,
                                              unref(params)),
                                1, unref(params)))

interpolate(template, params) ==
    IF ~params.given THEN template
    ELSE IF template.kind # "string" THEN Thrown
    ELSE JSString(ReplaceParams(template.value, 1, unref(params)))

(***************************************************************************)
(* The instance createI18n builds.  inst is the record of what the closures*)
(* t and tc read: the locale cell, fallbackLocale, translationMap,         *)
(* pluralForms, pluralizationRules and options.missingWarn.  An operation  *)
(* yields its return value and the warnings it passes to console.warn.     *)
(***************************************************************************)
MissingWarning(key) == [type |-> "missing", key |-> key]
NaNWarning          == [type |-> "NaN", key |-> << >>]

\* `${locale}.${key}`
CompositeKey(locale_, key) == locale_ \o <<".">> \o key

\* a bug: the fallback locale is looked up before the current one
getTranslation_fallbackFirst(inst, key) ==
    LET cur == CompositeKey(inst.locale, key)
        fb  == CompositeKey(inst.fallbackLocale, key)
    IN IF Has(inst.translationMap, fb)
       THEN [ret |-> JSString(inst.translationMap[fb]), warnings |-> << >>]
       ELSE IF Has(inst.translationMap, cur)
       THEN [ret |-> JSString(inst.translationMap[cur]), warnings |-> << >>]
       ELSE [ret |-> JSString(key),
             warnings |-> IF inst.missingWarn
                          THEN <<MissingWarning(key)>> ELSE << >>]

\* a bug: a missing key yields the empty string
getTranslation_missingEmpty(inst, key) ==
    LET cur == CompositeKey(inst.locale, key)
        fb  == CompositeKey(inst.fallbackLocale, key)
    IN IF Has(inst.translationMap, cur)
       THEN [ret |-> JSString(inst.translationMap[cur]), warnings |-> << >>]
       ELSE IF Has(inst.translationMap, fb)
       THEN [ret |-> JSString(inst.translationMap[fb]), warnings |-> << >>]
       ELSE [ret |-> JSString(<< >>),
             warnings |-> IF inst.missingWarn
                          THEN <<MissingWarning(key)>> ELSE << >>]

\* a bug: a key found only under the fallback locale is reported missing
getTranslation_warnOnFallback(inst, key) ==
    LET cur  == CompositeKey(inst.locale, key)
        fb   == CompositeKey(inst.fallbackLocale, key)
        warn == IF inst.missingWarn THEN <<MissingWarning(key)>> ELSE << >>
    IN IF Has(inst.translationMap, cur)
       THEN [ret |-> JSString(inst.translationMap[cur]), warnings |-> << >>]
       ELSE IF Has(inst.translationMap, fb)
       THEN [ret |-> JSString(inst.translationMap[fb]), warnings |-> warn]
       ELSE [ret |-> JSString(key), warnings |-> warn]

\* a bug: an entry is tested for truth (||), so the empty string counts as
\* absent
getTranslation_falsy(inst, key) ==
    LET cur  == CompositeKey(inst.locale, key)
        fb   == CompositeKey(inst.fallbackLocale, key)
        Truthy(k) == Has(inst.translationMap, k)
                        /\ inst.translationMap[k] # << >>
    IN IF Truthy(cur)
       THEN [ret |-> JSString(inst.translationMap[cur]), warnings |-> << >>]
       ELSE IF Truthy(fb)
       THEN [ret |-> JSString(inst.translationMap[fb]), warnings |-> << >>]
       ELSE [ret |-> JSString(key),
             warnings |-> IF inst.missingWarn
                          THEN <<MissingWarning(key)>> ELSE << >>]

getTranslation(inst, key) ==
    LET cur == CompositeKey(inst.locale, key)
        fb  == CompositeKey(inst.fallbackLocale, key)
    IN IF Has(inst.translationMap, cur)
       THEN [ret |-> JSString(inst.translationMap[cur]), warnings |-> << >>]
       ELSE IF Has(inst.translationMap, fb)
       THEN [ret |-> JSString(inst.translationMap[fb]), warnings |-> << >>]
       ELSE [ret |-> JSString(key),
             warnings |-> IF inst.missingWarn
                          THEN <<MissingWarning(key)>> ELSE << >>]

\* pluralForms.get(`${locale.value}.${key}`) ?? pluralForms.get(`${fallbackLocale}.${key}`);
\* << >> stands for undefined (no stored array of forms is empty)
PluralFormsFor(inst, key) ==
    LET cur == CompositeKey(inst.locale, key)
        fb  == CompositeKey(inst.fallbackLocale, key)
    IN IF Has(inst.pluralForms, cur) THEN inst.pluralForms[cur]
       ELSE IF Has(inst.pluralForms, fb) THEN inst.pluralForms[fb]
       ELSE << >>

\* a bug: the rule of the fallback locale is preferred
PluralRuleFor_fallbackFirst(inst) ==
    IF Has(inst.pluralizationRules, inst.fallbackLocale)
    THEN inst.pluralizationRules[inst.fallbackLocale]
    ELSE IF Has(inst.pluralizationRules, inst.locale)
    THEN inst.pluralizationRules[inst.locale]
    ELSE "universal"

\* pluralizationRules.get(locale.value) ?? pluralizationRules.get(fallbackLocale) ?? universal
PluralRuleFor(inst) ==
    IF Has(inst.pluralizationRules, inst.locale)
    THEN inst.pluralizationRules[inst.locale]
    ELSE IF Has(inst.pluralizationRules, inst.fallbackLocale)
    THEN inst.pluralizationRules[inst.fallbackLocale]
    ELSE "universal"

\* a bug: the sign of the count is kept
PluralIndex_noAbs(rule, count) == CallRule(rule, count)

\* rule(Math.abs(count))
PluralIndex(rule, count) == CallRule(rule, Abs(count))

\* forms[Math.min(index, forms.length - 1)]: reading an array at a negative
\* index yields undefined
FormAt(forms, index) ==
    LET i == Min(index, Len(forms) - 1)
    IN IF i >= 0 THEN JSString(forms[i + 1]) ELSE Undefined

\* a bug: without forms the key is returned without a lookup
applyPlural_noLookup(inst, key, count) ==
    LET forms == PluralFormsFor(inst, key)
    IN IF Len(forms) = 0 THEN [ret |-> JSString(key), warnings |-> << >>]
       ELSE [ret |-> FormAt(forms, PluralIndex(PluralRuleFor(inst), count)),
             warnings |-> << >>]

applyPlural(inst, key, count) ==
    LET forms == PluralFormsFor(inst, key)
    IN IF Len(forms) = 0 THEN getTranslation(inst, key)
       ELSE [ret |-> FormAt(forms, PluralIndex(PluralRuleFor(inst), count)),
             warnings |-> << >>]

\* a bug: t selects the first variant of a key that has variants
t_firstVariant(inst, key, params) ==
    LET r     == getTranslation(inst, key)
        forms == PluralFormsFor(inst, key)
    IN [ret |-> interpolate(IF Len(forms) = 0 THEN r.ret
                            ELSE JSString(forms[1]), params),
        warnings |-> r.warnings]

t(inst, key, params) ==
    LET r == getTranslation(inst, key)
    IN [ret |-> interpolate(r.ret, params), warnings |-> r.warnings]

\* count: [isNaN |-> TRUE] is NaN, otherwise val is the number
NaNDefault == 1

\* a bug: a NaN count is taken as 0
tc_nanAsZero(inst, key, count, params) ==
    LET nan  == count.isNaN
        warn == IF nan /\ inst.missingWarn THEN <<NaNWarning>> ELSE << >>
        c    == IF nan THEN 0 ELSE count.val
        r    == applyPlural(inst, key, c)
    IN [ret |-> interpolate(r.ret, params), warnings |-> warn \o r.warnings]

\* the other policy: a NaN count yields the plain translation of the key
tc_nanPlain(inst, key, count, params) ==
    LET nan  == count.isNaN
        warn == IF nan /\ inst.missingWarn THEN <<NaNWarning>> ELSE << >>
        r    == IF nan THEN getTranslation(inst, key)
                ELSE applyPlural(inst, key, count.val)
    IN [ret |-> interpolate(r.ret, params), warnings |-> warn \o r.warnings]

tc(inst, key, count, params) ==
    LET nan  == count.isNaN
        warn == IF nan /\ inst.missingWarn THEN <<NaNWarning>> ELSE << >>
        c    == IF nan THEN NaNDefault ELSE count.val
        r    == applyPlural(inst, key, c)
    IN [ret |-> interpolate(r.ret, params), warnings |-> warn \o r.warnings]

(***************************************************************************)
(* Inputs: the message trees, options and call arguments the callers use   *)
(***************************************************************************)
K_a    == <<"a">>
K_b    == <<"b">>
K_c    == <<"c">>
K_p    == <<"p">>
K_ab   == <<"a", ".", "b">>
K_abc  == <<"a", ".", "b", ".", "c">>
K_n    == <<"{", "n", "}">>

\* { a: "x{n}", p: "o {n}|m {n}" }
TreeFlat ==
    Obj(<<Entry(K_a, StrLeaf(<<"x", "{", "n", "}">>)),
          Entry(K_p, StrLeaf(<<"o", " ", "{", "n", "}", "|", "m", " ", "{", "n", "}">>))>>)

\* { a: { b: "y" }, p: [" u", "v ", "w"] }
TreeNested ==
    Obj(<<Entry(K_a, Obj(<<Entry(K_b, StrLeaf(<<"y">>))>>)),
          Entry(K_p, ArrLeaf(<<<<" ", "u">>, <<"v", " ">>, <<"w">>>>))>>)

\* { a: { b: { c: "z" } }, "{n}": "q", p: " o | m |t " }
TreeDeep ==
    Obj(<<Entry(K_a, Obj(<<Entry(K_b, Obj(<<Entry(K_c, StrLeaf(<<"z">>))>>))>>)),
          Entry(K_n, StrLeaf(<<"q">>)),
          Entry(K_p, StrLeaf(<<" ", "o", " ", "|", " ", "m", " ", "|", "t", " ">>))>>)

\* { "a.b": "x", a: { b: "z" } }: two leaves under the path a.b
TreeClashNestedLast ==
    Obj(<<Entry(K_ab, StrLeaf(<<"x">>)),
          Entry(K_a, Obj(<<Entry(K_b, StrLeaf(<<"z">>))>>))>>)

\* { a: { b: "z" }, "a.b": "x" }
TreeClashFlatLast ==
    Obj(<<Entry(K_a, Obj(<<Entry(K_b, StrLeaf(<<"z">>))>>)),
          Entry(K_ab, StrLeaf(<<"x">>))>>)

\* { a: 5, p: "", b: {}, "a.b": ["s"] }
TreeOdd ==
    Obj(<<Entry(K_a, Other),
          Entry(K_p, StrLeaf(<< >>)),
          Entry(K_b, Obj(<< >>)),
          Entry(K_ab, ArrLeaf(<<<<"s">>>>))>>)

\* { p: [" u", "v ", "w"], a: " u|v |w" }: the same variants as an array and
\* as a pipe-separated string
TreePairSpaced ==
    Obj(<<Entry(K_p, ArrLeaf(<<<<" ", "u">>, <<"v", " ">>, <<"w">>>>)),
          Entry(K_a, StrLeaf(<<" ", "u", "|", "v", " ", "|", "w">>))>>)

\* { p: ["u{n}", "v"], a: "u{n}|v", "a.b": "h{constructor}" }
TreePairPlain ==
    Obj(<<Entry(K_p, ArrLeaf(<<<<"u", "{", "n", "}">>, <<"v">>>>)),
          Entry(K_a, StrLeaf(<<"u", "{", "n", "}", "|", "v">>)),
          Entry(K_ab, StrLeaf(<<"h", "{", "c", "o", "n", "s", "t", "r", "u", "c", "t", "o", "r", "}">>))>>)

\* { "a.b": "x" }
TreeDotted == Obj(<<Entry(K_ab, StrLeaf(<<"x">>))>>)

\* { b: "y" }
TreeB == Obj(<<Entry(K_b, StrLeaf(<<"y">>))>>)

\* { a: "w" }
TreeA == Obj(<<Entry(K_a, StrLeaf(<<"w">>))>>)

\* locale identifiers with a dot and without a character
L_en_a  == <<"e", "n", ".", "a">>
L_empty == << >>

\* { a: [], p: "" }
TreeEmpty ==
    Obj(<<Entry(K_a, ArrLeaf(<< >>)),
          Entry(K_p, StrLeaf(<< >>))>>)

\* the values of options.messages
AllMessages ==
    << <<Entry(L_en, TreeFlat), Entry(L_fr, TreeNested)>>,
       <<Entry(L_en, TreeNested), Entry(L_fr, TreeDeep)>>,
       <<Entry(L_en, TreeClashNestedLast), Entry(L_fr, TreeFlat)>>,
       <<Entry(L_en, TreeClashFlatLast), Entry(L_pt, TreeFlat)>>,
       <<Entry(L_en, TreeFlat), Entry(L_fr, TreeOdd)>>,
       << >>,
       <<Entry(L_en, TreePairSpaced), Entry(L_fr, TreePairPlain)>>,
       <<Entry(L_en, TreeDotted), Entry(L_en_a, TreeB),
         Entry(L_empty, TreeA)>>,
       <<Entry(L_en, TreeFlat), Entry(L_fr, TreeEmpty)>> >>

\* the values of options.customPluralRules
AllCustomRules ==
    << [given |-> FALSE, rules |-> EmptyMap],
       [given |-> TRUE, rules |-> (L_en :> "identity")],
       [given |-> TRUE, rules |-> (L_fr :> "minusTwo") @@ (L_pt :> "identity")] >>

\* the values assigned to the locale cell
Locales == {L_en, L_fr, L_ar, L_pt}

\* the values of options.locale
InitialLocales == {L_en, L_pt}

\* the values of options.fallbackLocale
FallbackLocales == {L_en, L_fr, L_pt}

\* the keys t and tc are called with
Keys == {K_a, K_ab, K_abc, K_p, K_n}

Num(n) == [isNaN |-> FALSE, val |-> n]
NaN    == [isNaN |-> TRUE, val |-> 0]

\* the counts tc is called with
Counts == {Num(n) : n \in (0 - MaxCount)..MaxCount} \cup {NaN}

\* the params t and tc are called with: none, { n: 5 }, ref({})
AllParams ==
    {NoParams,
     [given |-> TRUE, isRef |-> FALSE, value |-> (<<"n">> :> <<"5">>)],
     [given |-> TRUE, isRef |-> TRUE, value |-> EmptyMap]}

\* missingWarn: TRUE stands for true and for the option left out
\* (the code tests options.missingWarn !== false)
AllOptions ==
    [locale : InitialLocales, fallbackLocale : FallbackLocales,
     messages : 1..Len(AllMessages), missingWarn : BOOLEAN,
     customPluralRules : 1..Len(AllCustomRules)]

(***************************************************************************)
(* The state machine                                                       *)
(***************************************************************************)
VARIABLES
    options,             \* the argument of createI18n
    locale,              \* locale.value
    fallbackLocale,
    translationMap,
    pluralForms,
    pluralizationRules,
    call,                \* the call the caller has just made, with its arguments
    result,              \* what that call returned
    warnings,            \* what that call passed to console.warn
    leaf,                \* the string leaf of a one-leaf message tree
    paramsObject,        \* the properties of the object the caller passes on
    held,                \* an earlier call and the string the caller kept of it
    magnitude,           \* the number handed to the built-in rules
    ruleIndex,           \* what each built-in rule returned for it
    installed,           \* app.use(i18n) has run
    provided,            \* what the app provides under I18nInjectionKey
    globalProperties     \* app.config.globalProperties

vars == <<options, locale, fallbackLocale, translationMap, pluralForms,
          pluralizationRules, call, result, warnings, leaf, paramsObject,
          held, magnitude, ruleIndex, installed, provided, globalProperties>>

\* the Vue app of the caller
appVars == <<installed, provided, globalProperties>>

\* what the caller holds besides the instance
callerVars == <<leaf, paramsObject, held, magnitude, ruleIndex, appVars>>

createI18n(opts) ==
    LET messages == AllMessages[opts.messages]
        tm       == flattenMessages(messages, << >>)
    IN [locale             |-> opts.locale,
        fallbackLocale     |-> opts.fallbackLocale,
        translationMap     |-> tm,
        pluralizationRules |->
            constructPluralizationRulesMap(
                AllCustomRules[opts.customPluralRules]),
        pluralForms        |-> constructPluralizationFormsMap(tm),
        missingWarn        |-> opts.missingWarn]

\* a bug: the closures read the locale given at construction
Instance_initialLocale ==
    [locale             |-> options.locale,
     fallbackLocale     |-> fallbackLocale,
     translationMap     |-> translationMap,
     pluralizationRules |-> pluralizationRules,
     pluralForms        |-> pluralForms,
     missingWarn        |-> options.missingWarn]

\* what the closures t and tc see
Instance ==
    [locale             |-> locale,
     fallbackLocale     |-> fallbackLocale,
     translationMap     |-> translationMap,
     pluralizationRules |-> pluralizationRules,
     pluralForms        |-> pluralForms,
     missingWarn        |-> options.missingWarn]

Call(op, key, count, params) ==
    [op |-> op, key |-> key, count |-> count, params |-> params]

\* the caller is between two statements: no call is being observed
Idle == Call("idle", << >>, NaN, NoParams)

\* the caller has kept no result
NoHeld == [call |-> Idle, result |-> Undefined]

\* every rule of defaultPluralRules applied to n
RuleIndexOf(n) ==
    [L \in DOMAIN defaultPluralRules |->
        BuiltinRule(defaultPluralRules[L], n)]

\* no object: undefined where an object is expected
NoObject == << >>

\* the state after createI18n(opts), the instance not yet installed
InitWith(opts) ==
    LET inst == createI18n(opts)
    IN /\ options = opts
       /\ locale = inst.locale
       /\ fallbackLocale = inst.fallbackLocale
       /\ translationMap = inst.translationMap
       /\ pluralForms = inst.pluralForms
       /\ pluralizationRules = inst.pluralizationRules
       /\ call = Idle
       /\ result = Undefined
       /\ warnings = << >>
       /\ leaf = << >>
       /\ paramsObject = EmptyMap
       /\ held = NoHeld
       /\ magnitude = 0
       /\ ruleIndex = RuleIndexOf(0)
       /\ installed = FALSE
       /\ provided = NoObject
       /\ globalProperties = EmptyMap

Init == \E opts \in AllOptions : InitWith(opts)

\* i18n.locale.value = l
SetLocale(l) ==
    /\ call = Idle
    /\ locale' = l
    /\ UNCHANGED <<options, fallbackLocale, translationMap, pluralForms,
                   pluralizationRules, call, result, warnings, callerVars>>

\* a bug: a key answered from the fallback locale switches the locale to it
T_stickyFallback(key, params) ==
    LET r == t(Instance, key, params)
    IN /\ call = Idle
       /\ call' = Call("t", key, NaN, params)
       /\ result' = r.ret
       /\ warnings' = r.warnings
       /\ locale' = IF ~Has(translationMap, CompositeKey(locale, key))
                       /\ Has(translationMap,
                              CompositeKey(fallbackLocale, key))
                    THEN fallbackLocale ELSE locale
       /\ UNCHANGED <<options, fallbackLocale, translationMap,
                      pluralForms, pluralizationRules, callerVars>>

\* i18n.t(key, params)
T(key, params) ==
    LET r == t(Instance, key, params)
    IN /\ call = Idle
       /\ call' = Call("t", key, NaN, params)
       /\ result' = r.ret
       /\ warnings' = r.warnings
       /\ UNCHANGED <<options, locale, fallbackLocale, translationMap,
                      pluralForms, pluralizationRules, callerVars>>

\* i18n.tc(key, count, params)
Tc(key, count, params) ==
    LET r == tc(Instance, key, count, params)
    IN /\ call = Idle
       /\ call' = Call("tc", key, count, params)
       /\ result' = r.ret
       /\ warnings' = r.warnings
       /\ UNCHANGED <<options, locale, fallbackLocale, translationMap,
                      pluralForms, pluralizationRules, callerVars>>

\* the caller has used the returned value and goes on to its next statement
Return ==
    /\ call # Idle
    /\ call' = Idle
    /\ result' = Undefined
    /\ warnings' = << >>
    /\ UNCHANGED <<options, locale, fallbackLocale, translationMap,
                   pluralForms, pluralizationRules, callerVars>>

Next ==
    \/ \E l \in Locales : SetLocale(l)
    \/ \E key \in Keys, params \in AllParams : T(key, params)
    \/ \E key \in Keys, count \in Counts, params \in AllParams :
          Tc(key, count, params)
    \/ Return

Spec == Init /\ [][Next]_vars

(***************************************************************************)
(* Construction from a one-leaf tree: createI18n is called with            *)
(* { en: { p: leaf } } for every string leaf over a small alphabet.        *)
(***************************************************************************)
\* the characters of the leaf: a letter, a blank and the pipe
LeafAlphabet == {"a", " ", "|"}

\* { en: { p: s } }
LeafMessages(s) == <<Entry(L_en, Obj(<<Entry(K_p, StrLeaf(s))>>))>>

\* the options besides messages; messages 0 stands for LeafMessages(leaf)
LeafOptions ==
    [locale |-> L_en, fallbackLocale |-> L_en, messages |-> 0,
     missingWarn |-> TRUE, customPluralRules |-> 1]

InitLeaf ==
    /\ options = LeafOptions
    /\ locale = LeafOptions.locale
    /\ fallbackLocale = LeafOptions.fallbackLocale
    /\ leaf = << >>
    /\ translationMap = flattenMessages(LeafMessages(leaf), << >>)
    /\ pluralForms = constructPluralizationFormsMap(translationMap)
    /\ pluralizationRules =
          constructPluralizationRulesMap(
              AllCustomRules[LeafOptions.customPluralRules])
    /\ call = Idle
    /\ result = Undefined
    /\ warnings = << >>
    /\ paramsObject = EmptyMap
    /\ held = NoHeld
    /\ magnitude = 0
    /\ ruleIndex = RuleIndexOf(0)
    /\ installed = FALSE
    /\ provided = NoObject
    /\ globalProperties = EmptyMap

\* createI18n with the leaf one character longer
CreateFromLeaf(c) ==
    /\ Len(leaf) < MaxLeafLen
    /\ leaf' = Append(leaf, c)
    /\ translationMap' = flattenMessages(LeafMessages(leaf'), << >>)
    /\ pluralForms' = constructPluralizationFormsMap(translationMap')
    /\ UNCHANGED <<options, locale, fallbackLocale, pluralizationRules, call,
                   result, warnings, paramsObject, held, magnitude,
                   ruleIndex, appVars>>

NextLeaf == \E c \in LeafAlphabet : CreateFromLeaf(c)

SpecLeaf == InitLeaf /\ [][NextLeaf]_vars

(***************************************************************************)
(* Calls that pass on one object of the caller, which the caller changes   *)
(* between the calls and whose earlier result it keeps.                    *)
(***************************************************************************)
\* { n: "{m}", m: "7" }: the value of n has the form of a placeholder whose
\* identifier is a property too
ParamsNested == (<<"n">> :> <<"{", "m", "}">>) @@ (<<"m">> :> <<"7">>)

\* the properties the caller gives its object: {}, { n: "5" }, { n: "7" }
\* and { n: "{m}", m: "7" }
ParamsContents ==
    {EmptyMap, (<<"n">> :> <<"5">>), (<<"n">> :> <<"7">>), ParamsNested}

\* the keys and counts of these calls
ParamsKeys   == {K_a, K_p, K_n}
ParamsCounts == {Num(1), Num(2)}

\* a bug: the properties are those the object had at the kept call
CurrentParams_snapshot(isRef) ==
    [given |-> TRUE, isRef |-> isRef,
     value |-> IF held.call.params.given THEN held.call.params.value
               ELSE paramsObject]

\* the caller's object as argument, plain or inside a Ref: interpolate reads
\* its properties while the call runs
CurrentParams(isRef) ==
    [given |-> TRUE, isRef |-> isRef, value |-> paramsObject]

InitParams ==
    /\ Init
    /\ options.messages = 1
    /\ options.fallbackLocale = L_en
    /\ options.missingWarn
    /\ options.customPluralRules = 1

\* const first = i18n.t(...): the caller keeps the returned string
Keep ==
    /\ call # Idle
    /\ held' = [call |-> call, result |-> result]
    /\ call' = Idle
    /\ result' = Undefined
    /\ warnings' = << >>
    /\ UNCHANGED <<options, locale, fallbackLocale, translationMap,
                   pluralForms, pluralizationRules, leaf, paramsObject,
                   magnitude, ruleIndex, appVars>>

\* params.n = ...; delete params.n: the caller changes its object
MutateParams(v) ==
    /\ call = Idle
    /\ v # paramsObject
    /\ paramsObject' = v
    /\ UNCHANGED <<options, locale, fallbackLocale, translationMap,
                   pluralForms, pluralizationRules, call, result, warnings,
                   leaf, held, magnitude, ruleIndex, appVars>>

NextParams ==
    \/ \E key \in ParamsKeys, isRef \in BOOLEAN :
          T(key, CurrentParams(isRef))
    \/ \E key \in ParamsKeys, count \in ParamsCounts, isRef \in BOOLEAN :
          Tc(key, count, CurrentParams(isRef))
    \/ Keep
    \/ Return
    \/ \E v \in ParamsContents : MutateParams(v)

SpecParams == InitParams /\ [][NextParams]_vars

(***************************************************************************)
(* The exported defaultPluralRules applied to 0, 1, 2, ... in turn.        *)
(***************************************************************************)
InitRules ==
    /\ Init
    /\ options.locale = L_en
    /\ options.fallbackLocale = L_en
    /\ options.messages = 6
    /\ options.missingWarn
    /\ options.customPluralRules = 1

\* defaultPluralRules[L](magnitude + 1) for every L
ApplyRules ==
    /\ magnitude < MaxMagnitude
    /\ magnitude' = magnitude + 1
    /\ ruleIndex' = RuleIndexOf(magnitude')
    /\ UNCHANGED <<options, locale, fallbackLocale, translationMap,
                   pluralForms, pluralizationRules, call, result, warnings,
                   leaf, paramsObject, held, appVars>>

NextRules == ApplyRules

SpecRules == InitRules /\ [][NextRules]_vars

(***************************************************************************)
(* Installing the instance on an app and reaching it with useI18n.         *)
(* Objects are named; two names are the same object when they are equal.   *)
(***************************************************************************)
JSObject(o) == [kind |-> "object", value |-> o]

\* the objects createI18n creates
InstanceRef == <<"instance">>
PluginRef   == <<"plugin">>
LocaleRef   == <<"locale">>
TRef        == <<"t">>
TcRef       == <<"tc">>

\* Object.assign returns its target
ObjectAssign(target, source) == target

\* what createI18n returns: Object.assign(instance, plugin)
Returned == ObjectAssign(InstanceRef, PluginRef)

\* the values of options.globalInjectPrefix: left out, "my"
AllPrefixes == {<< >>, <<"m", "y">>}

\* globalInject: TRUE stands for true and for the option left out
\* (the code tests options.globalInject !== false)
InstallOptions ==
    [locale : {L_en}, fallbackLocale : {L_en}, messages : {1},
     missingWarn : {TRUE}, customPluralRules : {1},
     globalInject : BOOLEAN, globalInjectPrefix : AllPrefixes]

\* the global properties install sets
GlobalProperties(prefix) ==
    IF Len(prefix) > 0
    THEN (<<"$">> \o prefix \o <<"T">> :> TRef)
         @@ (<<"$">> \o prefix \o <<"I", "1", "8", "n">> :> InstanceRef)
         @@ (<<"$">> \o prefix \o <<"L", "o", "c", "a", "l", "e">> :> LocaleRef)
         @@ (<<"$">> \o prefix \o <<"T", "c">> :> TcRef)
    ELSE (<<"$", "t">> :> TRef)
         @@ (<<"$", "i", "1", "8", "n">> :> InstanceRef)
         @@ (<<"$", "l", "o", "c", "a", "l", "e">> :> LocaleRef)
         @@ (<<"$", "t", "c">> :> TcRef)

InitInstall == \E opts \in InstallOptions : InitWith(opts)

\* a bug: the instance is provided only together with the global properties
Install_globalOnly ==
    /\ call = Idle
    /\ ~installed
    /\ installed' = TRUE
    /\ provided' = IF options.globalInject THEN InstanceRef ELSE provided
    /\ globalProperties' =
          IF options.globalInject
          THEN MapSetAll(globalProperties,
                         GlobalProperties(options.globalInjectPrefix))
          ELSE globalProperties
    /\ UNCHANGED <<options, locale, fallbackLocale, translationMap,
                   pluralForms, pluralizationRules, call, result, warnings,
                   leaf, paramsObject, held, magnitude, ruleIndex>>

\* app.use(i18n): Vue runs plugin.install(app) once per app
Install ==
    /\ call = Idle
    /\ ~installed
    /\ installed' = TRUE
    /\ provided' = InstanceRef
    /\ globalProperties' =
          IF options.globalInject
          THEN MapSetAll(globalProperties,
                         GlobalProperties(options.globalInjectPrefix))
          ELSE globalProperties
    /\ UNCHANGED <<options, locale, fallbackLocale, translationMap,
                   pluralForms, pluralizationRules, call, result, warnings,
                   leaf, paramsObject, held, magnitude, ruleIndex>>

\* useI18n() in a component of the app
UseI18n ==
    LET i18n == provided
    IN /\ call = Idle
       /\ call' = Call("useI18n", << >>, NaN, NoParams)
       /\ result' = IF i18n = NoObject THEN Thrown ELSE JSObject(i18n)
       /\ warnings' = << >>
       /\ UNCHANGED <<options, locale, fallbackLocale, translationMap,
                      pluralForms, pluralizationRules, callerVars>>

NextInstall ==
    \/ Install
    \/ UseI18n
    \/ \E l \in Locales : SetLocale(l)
    \/ \E key \in ParamsKeys : T(key, NoParams)
    \/ \E key \in ParamsKeys, count \in ParamsCounts :
          Tc(key, count, NoParams)
    \/ Return

SpecInstall == InitInstall /\ [][NextInstall]_vars

(***************************************************************************)
(* Properties                                                              *)
(***************************************************************************)
CurKey == CompositeKey(locale, call.key)
FbKey  == CompositeKey(fallbackLocale, call.key)

IsQuery == call.op \in {"t", "tc"}

\* the key of the latest call has no entry under either locale
MissingKey == ~Has(translationMap, CurKey) /\ ~Has(translationMap, FbKey)

\* the top-level keys of options.messages
TopLevelLocales ==
    {AllMessages[options.messages][i].key :
        i \in 1..Len(AllMessages[options.messages])}

\* C1: t(key) without params returns the index entry of the current locale
\* when there is one, otherwise the entry of the fallback locale when there
\* is one, whatever the value of the current locale.
C1_CurrentThenFallback ==
    (call.op = "t" /\ ~call.params.given) =>
        IF Has(translationMap, CurKey)
        THEN result = JSString(translationMap[CurKey])
        ELSE Has(translationMap, FbKey)
                => result = JSString(translationMap[FbKey])

\* t(key) answered from the fallback entry under a locale that is no
\* top-level key of messages
C1_Witness ==
    /\ call.op = "t" /\ ~call.params.given
    /\ locale \notin TopLevelLocales
    /\ ~Has(translationMap, CurKey) /\ Has(translationMap, FbKey)
    /\ result = JSString(translationMap[FbKey])

\* the leaves (values that are no object) of a tree in traversal order, each
\* with the dot-joined path that reaches it
RECURSIVE LeafList(_, _)
LeafList(entries, path) ==
    IF entries = << >> THEN << >>
    ELSE LET e == Head(entries)
             k == IF path = << >> THEN e.key ELSE path \o <<".">> \o e.key
         IN (IF e.value.type = "object" THEN LeafList(e.value.entries, k)
             ELSE <<[key |-> k, value |-> e.value]>>)
            \o LeafList(Tail(entries), path)

MessageLeaves == LeafList(AllMessages[options.messages], << >>)

\* leaf i is a string leaf without a pipe that the current locale and the
\* key of the latest call reach
ReachedPlainLeaf(i) ==
    /\ MessageLeaves[i].key = CurKey
    /\ MessageLeaves[i].value.type = "string"
    /\ ~Includes(MessageLeaves[i].value.str, "|")

\* a leaf visited after leaf i is stored under the same composite key
OverwrittenLater(i) ==
    \E j \in (i + 1)..Len(MessageLeaves) :
        /\ MessageLeaves[j].key = MessageLeaves[i].key
        /\ MessageLeaves[j].value.type \in {"string", "array"}

HasBoundPlaceholder(key, params) ==
    \E i \in 1..Len(key), j \in 1..Len(key) :
        /\ i + 1 < j /\ key[i] = "{" /\ key[j] = "}"
        /\ \A k \in (i + 1)..(j - 1) : IsWord(key[k])
        /\ In(SubSeq(key, i + 1, j - 1), params.value)

\* C3 as stated: a key missing under both locales is returned exactly, for
\* every key and every params.
C3_Original ==
    (IsQuery /\ MissingKey) => result = JSString(call.key)

\* C3: for a key missing under both locales t and tc return the key with its
\* placeholders interpolated from params: exactly the key when no params are
\* given or no placeholder of the key names a property of params.
C3_MissingKeyInterpolated ==
    (IsQuery /\ MissingKey) =>
        /\ result = interpolate(JSString(call.key), call.params)
        /\ (~call.params.given
            \/ ~HasBoundPlaceholder(call.key, call.params))
               => result = JSString(call.key)

\* tc on a missing key with params returned the key
C3_Witness ==
    /\ call.op = "tc" /\ call.params.given /\ ~call.count.isNaN
    /\ MissingKey
    /\ result = JSString(call.key)

\* the instance createI18n builds from each options value, the initial
\* locale ranging over all values of the locale cell
Constructed ==
    [o \in [locale : Locales, fallbackLocale : FallbackLocales,
            messages : 1..Len(AllMessages), missingWarn : BOOLEAN,
            customPluralRules : 1..Len(AllCustomRules)] |-> createI18n(o)]

\* an instance constructed now from the same options with the current value
\* of the locale cell as its initial locale
FreshInstance == Constructed[[options EXCEPT !.locale = locale]]

\* C4: whatever locale assignments and calls came before, a t or tc call
\* returns what a freshly constructed instance whose initial locale is the
\* latest assigned value returns.
C4_LocaleSwitchImmediate ==
    /\ call.op = "t" =>
          result = t(FreshInstance, call.key, call.params).ret
    /\ call.op = "tc" =>
          result = tc(FreshInstance, call.key, call.count, call.params).ret

\* a call after the locale was switched away from the initial one, whose
\* result differs from the one under the initial locale
C4_Witness ==
    /\ call.op = "tc" /\ locale # options.locale
    /\ result = tc(FreshInstance, call.key, call.count, call.params).ret
    /\ result # tc(Constructed[options], call.key, call.count,
                   call.params).ret

\* the forms and the rule the latest tc call works with
CallForms == PluralFormsFor(Instance, call.key)
CallMagnitude == IF call.count.isNaN THEN 1 ELSE Abs(call.count.val)

\* C5: for a key with N variants tc selects the variant at rule(|count|)
\* clamped into [0, N-1]: an index outside that range, whatever the rule,
\* selects the last variant and never fails.
C5_IndexClamped ==
    (call.op = "tc" /\ ~call.count.isNaN /\ Len(CallForms) > 0) =>
        LET N     == Len(CallForms)
            index == CallRule(PluralRuleFor(Instance), Abs(call.count.val))
            pick  == IF index >= 0 /\ index <= N - 1 THEN index ELSE N - 1
        IN result = interpolate(JSString(CallForms[pick + 1]), call.params)

\* C6: t and tc are total: every call returns a string and raises nothing.
C6_Total ==
    IsQuery => result.kind = "string"

\* C7 as stated: tc(key, NaN) on a key with variants does not throw and
\* returns the first variant, whatever rule is registered.
C7_Original ==
    (call.op = "tc" /\ call.count.isNaN /\ ~call.params.given
     /\ Len(CallForms) > 0) =>
        result = JSString(CallForms[1])

\* C7: tc(key, NaN) on a key with variants does not throw and returns what
\* tc(key, 1) returns, which is the first variant whenever the applicable
\* rule maps 1 to index 0.
C7_NaNAsOne ==
    (call.op = "tc" /\ call.count.isNaN /\ ~call.params.given
     /\ Len(CallForms) > 0) =>
        /\ result.kind # "throw"
        /\ result = tc(Instance, call.key, Num(1), call.params).ret
        /\ CallRule(PluralRuleFor(Instance), 1) = 0
              => result = JSString(CallForms[1])

\* tc(key, NaN) returned the second variant under a rule that maps 1 to 1
C7_Witness ==
    /\ call.op = "tc" /\ call.count.isNaN /\ ~call.params.given
    /\ Len(CallForms) > 1
    /\ CallRule(PluralRuleFor(Instance), 1) = 1
    /\ result = JSString(CallForms[2])
    /\ CallForms[2] # CallForms[1]

\* the rule in the order of the claim: current locale, fallback locale,
\* universal default
ClaimedRule ==
    IF locale \in DOMAIN pluralizationRules THEN pluralizationRules[locale]
    ELSE IF fallbackLocale \in DOMAIN pluralizationRules
         THEN pluralizationRules[fallbackLocale]
    ELSE "universal"

\* the locale whose entry supplied the variants of the latest tc call
FormsFromFallback ==
    /\ ~Has(pluralForms, CurKey) /\ Has(pluralForms, FbKey)

\* C8: the rule tc applies is the one registered for the current locale, else
\* the one registered for the fallback locale, else the universal default
\* (0 for magnitude 1, else 1), whichever locale supplied the variants.
C8_RuleOrder ==
    (call.op = "tc" /\ Len(CallForms) > 0) =>
        LET index == IF ClaimedRule = "universal"
                     THEN (IF CallMagnitude = 1 THEN 0 ELSE 1)
                     ELSE CallRule(ClaimedRule, CallMagnitude)
        IN result = interpolate(FormAt(CallForms, index), call.params)

\* the variants came from the fallback locale and the rule of the current
\* locale chose a variant that the fallback locale's rule does not choose
C8_Witness ==
    /\ call.op = "tc" /\ ~call.count.isNaN /\ ~call.params.given
    /\ FormsFromFallback
    /\ locale \in DOMAIN pluralizationRules
    /\ fallbackLocale \in DOMAIN pluralizationRules
    /\ result = FormAt(CallForms, CallRule(pluralizationRules[locale],
                                           CallMagnitude))
    /\ result # FormAt(CallForms,
                       CallRule(pluralizationRules[fallbackLocale],
                                CallMagnitude))

\* the value of options.customPluralRules
CustomRules == AllCustomRules[options.customPluralRules]
NamedLocales == IF CustomRules.given THEN DOMAIN CustomRules.rules ELSE {}

\* C9: the Rule Table maps every locale named in customPluralRules to the
\* caller's rule, every other built-in locale to its built-in rule, and has
\* no further locale.
C9_RuleTable ==
    /\ DOMAIN pluralizationRules = (DOMAIN defaultPluralRules) \cup NamedLocales
    /\ \A L \in NamedLocales : pluralizationRules[L] = CustomRules.rules[L]
    /\ \A L \in (DOMAIN defaultPluralRules) \ NamedLocales :
          pluralizationRules[L] = defaultPluralRules[L]

\* a table built from custom rules that replace a built-in rule (fr) and add
\* a locale (pt)
C9_Witness ==
    /\ options.customPluralRules = Len(AllCustomRules)
    /\ NamedLocales = {L_fr, L_pt}
    /\ pluralizationRules[L_fr] = "minusTwo"
    /\ pluralizationRules[L_pt] = "identity"
    /\ pluralizationRules[L_en] = "en"
    /\ pluralizationRules[L_ar] = "ar"

\* C10: tc(key, -c, params) returns what tc(key, c, params) returns, for
\* every integer c.
C10_SignIgnored ==
    (call.op = "tc" /\ ~call.count.isNaN) =>
        result = tc(Instance, call.key, Num(0 - call.count.val),
                    call.params).ret

\* tc with count -1 returned the singular variant of a two-variant key
C10_Witness ==
    /\ call.op = "tc" /\ ~call.count.isNaN /\ call.count.val = 0 - 1
    /\ Len(CallForms) = 2
    /\ result = interpolate(JSString(CallForms[1]), call.params)
    /\ CallForms[1] # CallForms[2]

\* the key of the latest call has no variant set under either locale
NoVariantSet == ~Has(pluralForms, CurKey) /\ ~Has(pluralForms, FbKey)

\* C11: for a key without a variant set under the current and the fallback
\* locale, tc(key, count, params) with a numeric count returns the string
\* t(key, params) returns and emits the warnings t emits.
C11_NoFormsAsT ==
    (call.op = "tc" /\ ~call.count.isNaN /\ NoVariantSet) =>
        /\ result = t(Instance, call.key, call.params).ret
        /\ warnings = t(Instance, call.key, call.params).warnings

\* tc with params on a key whose entry has no variants returned that entry
\* interpolated, a string different from the key
C11_Witness ==
    /\ call.op = "tc" /\ ~call.count.isNaN /\ call.params.given
    /\ NoVariantSet /\ ~MissingKey
    /\ result = t(Instance, call.key, call.params).ret
    /\ result # JSString(call.key)
    /\ result.kind = "string"

\* no variant but the first begins with whitespace and none but the last
\* ends with whitespace
NoSpaceAtSeparators(items) ==
    \A v \in 1..Len(items) :
        /\ (v > 1 /\ items[v] # << >>) => ~IsSpace(items[v][1])
        /\ (v < Len(items) /\ items[v] # << >>)
              => ~IsSpace(items[v][Len(items[v])])

\* leaf i declares variants, two at least, as an array and leaf j declares
\* the same variants as one string, joined by pipes; neither is overwritten
\* by a later leaf
SameVariants(leaves, i, j) ==
    /\ leaves[i].value.type = "array"
    /\ leaves[j].value.type = "string"
    /\ Len(leaves[i].value.items) >= 2
    /\ \A v \in 1..Len(leaves[i].value.items) :
          ~Includes(leaves[i].value.items[v], "|")
    /\ leaves[j].value.str = Join(leaves[i].value.items, "|")
    /\ ~OverwrittenLater(i) /\ ~OverwrittenLater(j)

\* the keys k for which the key of the latest call is declared as an array
\* and k, under the current locale, as the same variants in a string; with
\* spaced = FALSE only the pairs without whitespace next to a separator
PipeTwins(spaced) ==
    LET leaves == MessageLeaves
    IN {k \in Keys :
          \E i \in 1..Len(leaves) :
             /\ leaves[i].key = CurKey
             /\ \E j \in 1..Len(leaves) :
                   /\ leaves[j].key = CompositeKey(locale, k)
                   /\ SameVariants(leaves, i, j)
                   /\ spaced \/ NoSpaceAtSeparators(leaves[i].value.items)}

\* the latest call, made with key k instead
SameCallOn(k) ==
    IF call.op = "t" THEN t(Instance, k, call.params).ret
    ELSE tc(Instance, k, call.count, call.params).ret

\* C12 as stated: t and tc on a key declared as an array of variants return
\* what they return on a key declared as the same variants in one
\* pipe-separated string, for every count and params.
C12_Original ==
    IsQuery => \A k \in PipeTwins(TRUE) : result = SameCallOn(k)

\* C12: tc on the array-declared key returns what it returns on the
\* pipe-declared key for every count and params; t does so when no variant
\* has whitespace next to a separator.
C12_ArrayAsPipe ==
    IsQuery =>
        \A k \in PipeTwins(call.op = "tc") : result = SameCallOn(k)

\* tc on an array-declared key whose variants carry whitespace returned the
\* trimmed variant the pipe-declared key yields, while t differs on the two
C12_Witness ==
    /\ call.op = "tc" /\ ~call.count.isNaN /\ result.kind = "string"
    /\ \E k \in PipeTwins(TRUE) \ PipeTwins(FALSE) :
          /\ result = SameCallOn(k)
          /\ t(Instance, call.key, call.params).ret
                # t(Instance, k, call.params).ret

\* the positions of the pipes of s, with the two ends of s
Cuts(s) == {i \in 1..Len(s) : s[i] = "|"} \cup {0, Len(s) + 1}

\* the m-th smallest position of Cuts(s)
Cut(s, m) ==
    CHOOSE x \in Cuts(s) : Cardinality({y \in Cuts(s) : y < x}) = m - 1

\* the text of s between its (m-1)-th and its m-th pipe
Segment(s, m) == SubSeq(s, Cut(s, m) + 1, Cut(s, m + 1) - 1)

\* v is seg without the whitespace at its two ends
IsStripOf(v, seg) ==
    /\ \E a \in 0..Len(seg), b \in 0..Len(seg) :
          /\ a <= b /\ v = SubSeq(seg, a + 1, b)
          /\ \A x \in 1..a : IsSpace(seg[x])
          /\ \A x \in (b + 1)..Len(seg) : IsSpace(seg[x])
    /\ v # << >> => (~IsSpace(v[1]) /\ ~IsSpace(v[Len(v)]))

\* the composite key of the leaf of the one-leaf tree
LeafKey == CompositeKey(L_en, K_p)

\* C13: for a string leaf with k pipes the variant set has exactly k+1
\* variants in the order of the leaf, the m-th being the text between the
\* (m-1)-th and the m-th pipe without the whitespace at its ends.  Variant
\* sets exist for k >= 1 only: a leaf without a pipe has none.
C13_VariantsOfLeaf ==
    LET k == Cardinality(Cuts(leaf)) - 2
    IN IF k = 0 THEN ~Has(pluralForms, LeafKey)
       ELSE /\ Has(pluralForms, LeafKey)
            /\ Len(pluralForms[LeafKey]) = k + 1
            /\ \A m \in 1..(k + 1) :
                  IsStripOf(pluralForms[LeafKey][m], Segment(leaf, m))

\* a leaf with two pipes and whitespace around them gave three variants, the
\* second and third shorter than the text between the pipes
C13_Witness ==
    /\ Cardinality(Cuts(leaf)) = 4
    /\ Has(pluralForms, LeafKey)
    /\ Len(pluralForms[LeafKey]) = 3
    /\ pluralForms[LeafKey][1] = <<"a">>
    /\ Len(pluralForms[LeafKey][2]) < Len(Segment(leaf, 2))
    /\ pluralForms[LeafKey][3] = << >>
    /\ Segment(leaf, 3) # << >>

\* s from position i on, each placeholder {identifier} whose identifier is a
\* key of own replaced by own[identifier], everything else kept
RECURSIVE OwnKeysReplaced(_, _, _)
OwnKeysReplaced(s, i, own) ==
    IF i > Len(s) THEN << >>
    ELSE IF s[i] = "{"
            /\ \E j \in (i + 2)..Len(s) :
                  /\ s[j] = "}"
                  /\ \A x \in (i + 1)..(j - 1) : IsWord(s[x])
         THEN LET j == CHOOSE y \in (i + 2)..Len(s) :
                          /\ s[y] = "}"
                          /\ \A x \in (i + 1)..(y - 1) : IsWord(s[x])
                  identifier == SubSeq(s, i + 1, j - 1)
              IN (IF identifier \in DOMAIN own THEN own[identifier]
                  ELSE SubSeq(s, i, j))
                 \o OwnKeysReplaced(s, j + 1, own)
         ELSE <<s[i]>> \o OwnKeysReplaced(s, i + 1, own)

\* the template the latest t call interpolates
CallTemplate == getTranslation(Instance, call.key).ret

\* C14: t returns its template with every placeholder whose identifier is a
\* key of params replaced by that value, every other placeholder and all
\* other text unchanged, and the template itself when no params are given.
C14_OwnKeysOnly ==
    call.op = "t" =>
        IF ~call.params.given THEN result = CallTemplate
        ELSE result = JSString(OwnKeysReplaced(CallTemplate.value, 1,
                                               call.params.value))

\* what the call c returns when the object it is given has the properties v
ReturnOf(c, v) ==
    LET params == [c.params EXCEPT !.value = v]
    IN IF c.op = "t" THEN t(Instance, c.key, params).ret
       ELSE tc(Instance, c.key, c.count, params).ret

\* C15: of two calls given the same object, changed by the caller in
\* between, the later one returns what the properties at the time of that
\* call yield, and the string the earlier call returned stays what the
\* properties at the time of the earlier call yielded.
C15_ParamsReadAtCall ==
    (IsQuery /\ call.params.given /\ held.call.params.given) =>
        /\ result = ReturnOf(call, paramsObject)
        /\ held.result = ReturnOf(held.call, held.call.params.value)

\* the same call made twice with the object changed in between returned two
\* different strings, the later one built from the new property value
C15_Witness ==
    /\ IsQuery /\ call.params.given /\ held.call.params.given
    /\ held.call.op = call.op /\ held.call.key = call.key
    /\ held.call.count = call.count
    /\ held.call.params.isRef = call.params.isRef
    /\ held.call.params.value = (<<"n">> :> <<"5">>)
    /\ paramsObject = (<<"n">> :> <<"7">>)
    /\ result = ReturnOf(call, paramsObject)
    /\ held.result = ReturnOf(call, held.call.params.value)
    /\ result # held.result

\* C16: with missingWarn not false a t or tc call emits the NaN warning
\* exactly when it is a tc call with a NaN count and the missing-translation
\* warning exactly when the key has no entry under the current and the
\* fallback locale (none for a key found under the fallback locale only);
\* with missingWarn false no call emits a warning.
C16_WarningsExactly ==
    IF IsQuery
    THEN LET isNaNCall == call.op = "tc" /\ call.count.isNaN
         IN warnings =
              (IF options.missingWarn /\ isNaNCall
               THEN <<[type |-> "NaN", key |-> << >>]>> ELSE << >>)
              \o (IF options.missingWarn /\ MissingKey
                  THEN <<[type |-> "missing", key |-> call.key]>>
                  ELSE << >>)
    ELSE warnings = << >>

\* tc with a NaN count on a key with no entry emitted both warnings
C16_Witness ==
    /\ call.op = "tc" /\ call.count.isNaN /\ MissingKey
    /\ options.missingWarn
    /\ Len(warnings) = 2
    /\ warnings[1].type = "NaN"
    /\ warnings[2] = [type |-> "missing", key |-> call.key]

\* C17: no step (call of t or tc, locale assignment, return to the caller)
\* changes the Flattened Index, the Plural Variant Table, the Rule Table or
\* the fallback locale; a step that makes a call leaves the current locale
\* unchanged, and what the call returns is determined by the current
\* locale, the key, the count and the params.
C17_Frame ==
    [][/\ translationMap' = translationMap
       /\ pluralForms' = pluralForms
       /\ pluralizationRules' = pluralizationRules
       /\ fallbackLocale' = fallbackLocale
       /\ call' # Idle =>
             /\ locale' = locale
             /\ result' = ReturnOf(call', call'.params.value)]_vars

\* a call made after the locale was switched: the tables and the fallback
\* locale are still those of the construction
C17_Witness ==
    /\ IsQuery /\ locale # options.locale
    /\ translationMap = Constructed[options].translationMap
    /\ pluralForms = Constructed[options].pluralForms
    /\ pluralizationRules = Constructed[options].pluralizationRules
    /\ fallbackLocale = options.fallbackLocale
    /\ result = ReturnOf(call, call.params.value)

\* C18: for a key with an entry under the current locale, tc with a numeric
\* count returns text of that entry: the variant the rule selects among the
\* entry's variants, or the entry itself when it has no variants; never text
\* of the fallback locale's entry.
C18_CurrentEntryOnly ==
    (call.op = "tc" /\ ~call.count.isNaN /\ Has(translationMap, CurKey)) =>
        LET entry == translationMap[CurKey]
            index == CallRule(PluralRuleFor(Instance), Abs(call.count.val))
        IN IF Has(pluralForms, CurKey)
           THEN result = interpolate(FormAt(pluralForms[CurKey], index),
                                     call.params)
           ELSE result = interpolate(JSString(entry), call.params)

\* the examples of the claim: 1, 21, 31 give 0; 2, 3, 4, 22 give 1;
\* 0, 5, 11..14, 15, 20 give 2
RuExamples ==
    /\ magnitude \in {1, 21, 31} => ruleIndex[L_ru] = 0
    /\ magnitude \in {2, 3, 4, 22} => ruleIndex[L_ru] = 1
    /\ magnitude \in {0, 5, 11, 12, 13, 14, 15, 20} => ruleIndex[L_ru] = 2

\* C19: the built-in ru rule maps a non-negative integer n to 0 when
\* n mod 10 = 1 and n mod 100 # 11, to 1 when n mod 10 is in 2..4 and
\* n mod 100 is not in 10..19, and to 2 otherwise, so the examples hold.
C19_RuRule ==
    LET n == magnitude
    IN /\ ruleIndex[L_ru] =
            CASE n % 10 = 1 /\ n % 100 # 11 -> 0
              [] n % 10 \in 2..4 /\ n % 100 \notin 10..19 -> 1
              [] OTHER -> 2
       /\ RuExamples

\* 111 ends in 1 and is mapped to 2, as 11 is
C19_Witness ==
    /\ magnitude = 111
    /\ ruleIndex[L_ru] = 2

\* C20: the built-in ar rule maps a non-negative integer n to 0 for n = 0,
\* 1 for n = 1, 2 for n = 2, otherwise to 3 when n mod 100 is in 3..10,
\* otherwise to 4 when n mod 100 is in 11..99, otherwise to 5.
C20_ArRule ==
    LET n == magnitude
    IN ruleIndex[L_ar] =
         CASE n = 0 -> 0
           [] n = 1 -> 1
           [] n = 2 -> 2
           [] n > 2 /\ n % 100 \in 3..10 -> 3
           [] n > 2 /\ n % 100 \in 11..99 -> 4
           [] OTHER -> 5

\* 101 is neither 1 nor in a range and is mapped to 5; 103 is few
C20_Witness ==
    /\ magnitude = 101
    /\ ruleIndex[L_ar] = 5

\* C21: for a non-negative integer n the built-in rules of zh, zh-CN, zh-TW,
\* ja and ko return 0; those of en, de and es 0 when n = 1 and 1 otherwise;
\* that of fr 0 when n is 0 or 1 and 1 otherwise; that of pl 0 when n = 1,
\* 1 when n mod 10 is in 2..4 and n mod 100 is not in 10..19, and 2
\* otherwise.
C21_OtherRules ==
    LET n == magnitude
    IN /\ DOMAIN ruleIndex = {L_zh, L_zhCN, L_zhTW, L_en, L_ja, L_ko, L_fr,
                              L_de, L_es, L_ru, L_pl, L_ar}
       /\ \A L \in {L_zh, L_zhCN, L_zhTW, L_ja, L_ko} : ruleIndex[L] = 0
       /\ \A L \in {L_en, L_de, L_es} :
             ruleIndex[L] = IF n = 1 THEN 0 ELSE 1
       /\ ruleIndex[L_fr] = IF n \in {0, 1} THEN 0 ELSE 1
       /\ ruleIndex[L_pl] =
             CASE n = 1 -> 0
               [] n # 1 /\ n % 10 \in 2..4 /\ n % 100 \notin 10..19 -> 1
               [] OTHER -> 2

\* 21 is "many" for pl, where ru has "one", and plural for en and fr
C21_Witness ==
    /\ magnitude = 21
    /\ ruleIndex[L_pl] = 2 /\ ruleIndex[L_ru] = 0
    /\ ruleIndex[L_en] = 1 /\ ruleIndex[L_fr] = 1 /\ ruleIndex[L_zh] = 0

\* C22: useI18n raises an error before the instance is installed on the app
\* and returns the object createI18n returned once it is installed, whether
\* or not globalInject is false.
C22_UseI18n ==
    call.op = "useI18n" =>
        IF installed THEN result = JSObject(Returned)
        ELSE result.kind = "throw"

\* useI18n returned the instance on an app where install, with globalInject
\* false, set no global property
C22_Witness ==
    /\ call.op = "useI18n" /\ installed /\ ~options.globalInject
    /\ globalProperties = EmptyMap
    /\ result = JSObject(Returned)

\* C23: tc(key, NaN, params) returns what tc(key, 1, params) returns in the
\* same state: for a key with variants the variant the applicable rule
\* selects for magnitude 1, with params interpolated.
C23_NaNIsOne ==
    (call.op = "tc" /\ call.count.isNaN) =>
        /\ result = tc(Instance, call.key, Num(1), call.params).ret
        /\ Len(CallForms) > 0 =>
              result = interpolate(
                           FormAt(CallForms, CallRule(ClaimedRule, 1)),
                           call.params)

\* tc(key, NaN, params) returned the first variant with its placeholder
\* replaced, not the joined entry t returns
C23_Witness ==
    /\ call.op = "tc" /\ call.count.isNaN /\ call.params.given
    /\ Len(CallForms) > 1
    /\ CallRule(ClaimedRule, 1) = 0
    /\ result = interpolate(JSString(CallForms[1]), call.params)
    /\ result # JSString(CallForms[1])
    /\ result # t(Instance, call.key, call.params).ret

\* the value the index holds for a string or array leaf
Canonical(value) ==
    IF value.type = "string" THEN ReplacePlural(value.str, 1)
    ELSE Join(value.items, NANO_VUE_I18N_PLURAL_SEPARATOR)

\* the index of one locale, flattened on its own: the dot-joined path of
\* each string or array leaf of the tree with the value stored for it
RECURSIVE PathIndex(_, _, _)
PathIndex(leaves, i, acc) ==
    IF i > Len(leaves) THEN acc
    ELSE PathIndex(leaves, i + 1,
                   IF leaves[i].value.type \in {"string", "array"}
                   THEN MapSet(acc, leaves[i].key, Canonical(leaves[i].value))
                   ELSE acc)

LocaleIndex(tree) == PathIndex(LeafList(tree.entries, << >>), 1, EmptyMap)

\* the indexes of the locales of msgs, each flattened on its own
RECURSIVE LocaleIndexes(_)
LocaleIndexes(msgs) ==
    IF msgs = << >> THEN << >>
    ELSE <<LocaleIndex(Head(msgs).value)>> \o LocaleIndexes(Tail(msgs))

OddLeafReached ==
    LET leaves == MessageLeaves
    IN /\ \E i \in 1..Len(leaves) :
             leaves[i].key = CurKey /\ leaves[i].value.type = "other"
       /\ \A i \in 1..Len(leaves) :
             leaves[i].key = CurKey => leaves[i].value.type = "other"

\* every string or array leaf that no later leaf overwrites is in the index
LeavesRetrievable ==
    LET leaves == MessageLeaves
    IN \A j \in 1..Len(leaves) :
          (leaves[j].value.type \in {"string", "array"}
           /\ ~OverwrittenLater(j))
             => /\ Has(translationMap, leaves[j].key)
                /\ translationMap[leaves[j].key] = Canonical(leaves[j].value)

\* C25: a path that reaches a number, null or boolean leaf has no entry in
\* the index: t on it returns the fallback locale's entry when there is one
\* and otherwise the key with the missing-translation warning, as for a
\* path that does not exist, while the string and array leaves stay
\* retrievable.
C25_OddLeavesExcluded ==
    (call.op = "t" /\ OddLeafReached) =>
        /\ ~Has(translationMap, CurKey)
        /\ result = interpolate(
                        IF Has(translationMap, FbKey)
                        THEN JSString(translationMap[FbKey])
                        ELSE JSString(call.key), call.params)
        /\ warnings = IF ~Has(translationMap, FbKey) /\ options.missingWarn
                      THEN <<MissingWarning(call.key)>> ELSE << >>
        /\ LeavesRetrievable

\* t on the path of a number leaf returned the key, while a string leaf of
\* the same locale is in the index
C25_Witness ==
    /\ call.op = "t" /\ ~call.params.given /\ OddLeafReached
    /\ ~Has(translationMap, FbKey)
    /\ result = JSString(call.key)
    /\ Has(translationMap, CompositeKey(locale, K_p))

\* leaf i is stored: a string or an array
Stored(leaves, i) == leaves[i].value.type \in {"string", "array"}

\* the last stored leaf with the composite key of the stored leaf i
LastWithKey(leaves, i) ==
    CHOOSE j \in i..Len(leaves) :
        /\ Stored(leaves, j) /\ leaves[j].key = leaves[i].key
        /\ \A x \in (j + 1)..Len(leaves) :
              ~(Stored(leaves, x) /\ leaves[x].key = leaves[i].key)

\* C26: when several leaves flatten to one composite key the index holds,
\* under that key, the value of the one visited last; construction emits no
\* warning.
C26_LastWriteWins ==
    LET leaves == MessageLeaves
    IN /\ \A i \in 1..Len(leaves) :
             Stored(leaves, i) =>
                 /\ Has(translationMap, leaves[i].key)
                 /\ translationMap[leaves[i].key]
                      = Canonical(leaves[LastWithKey(leaves, i)].value)
       /\ call = Idle => warnings = << >>

\* a dotted key and a nested object spell the same path with different
\* leaves, and the index holds the later one
C26_Witness ==
    LET leaves == MessageLeaves
    IN /\ call = Idle /\ warnings = << >>
       /\ \E i \in 1..Len(leaves), j \in 1..Len(leaves) :
             /\ i < j /\ Stored(leaves, i) /\ Stored(leaves, j)
             /\ leaves[i].key = leaves[j].key
             /\ LastWithKey(leaves, i) = j
             /\ Canonical(leaves[i].value) # Canonical(leaves[j].value)
             /\ translationMap[leaves[j].key] = Canonical(leaves[j].value)

\* C27 as stated: the key set of the Plural Variant Table is a strict subset
\* of the key set of the Flattened Index, for every messages input.
C27_Original ==
    /\ DOMAIN pluralForms \subseteq DOMAIN translationMap
    /\ DOMAIN pluralForms # DOMAIN translationMap

\* C27: the key set of the Plural Variant Table is a subset of the key set
\* of the Flattened Index, namely the keys whose entry holds the separator;
\* it is a strict subset exactly when some entry holds none.
C27_PluralSubset ==
    /\ DOMAIN pluralForms \subseteq DOMAIN translationMap
    /\ \A k \in DOMAIN translationMap :
          k \in DOMAIN pluralForms
             <=> \E i \in 1..Len(translationMap[k]) :
                    translationMap[k][i] = NANO_VUE_I18N_PLURAL_SEPARATOR
    /\ DOMAIN pluralForms # DOMAIN translationMap
          <=> \E k \in DOMAIN translationMap :
                 \A i \in 1..Len(translationMap[k]) :
                    translationMap[k][i] # NANO_VUE_I18N_PLURAL_SEPARATOR

\* an index with plural and plain entries: the table has some of its keys,
\* not all
C27_Witness ==
    /\ DOMAIN pluralForms # {}
    /\ DOMAIN pluralForms \subseteq DOMAIN translationMap
    /\ DOMAIN pluralForms # DOMAIN translationMap
    /\ Cardinality(DOMAIN translationMap) >= 4

\* the key of the entry getTranslation reads for the latest call
EntryKey == IF Has(translationMap, CurKey) THEN CurKey ELSE FbKey

\* the latest call is t(key) without params and the entry it reads has
\* several variants
TOfVariants ==
    /\ call.op = "t"
    /\ ~call.params.given
    /\ Has(pluralForms, EntryKey)

\* C28 as stated: for a key whose leaf declares several variants, t(key)
\* returns the variants joined by the internal separator character, which
\* is neither the first variant nor the original leaf text.
C28_Original ==
    TOfVariants =>
        LET forms  == pluralForms[EntryKey]
            leaves == MessageLeaves
        IN /\ result = JSString(Join(forms, NANO_VUE_I18N_PLURAL_SEPARATOR))
           /\ result # JSString(forms[1])
           /\ \A i \in 1..Len(leaves) :
                 (leaves[i].key = EntryKey /\ leaves[i].value.type = "string")
                    => result # JSString(leaves[i].value.str)

\* C28: t performs no variant selection: for a key whose leaf declares
\* several variants, t(key) returns the index entry of the leaf, which holds
\* every variant in order, separated by the internal separator character,
\* each as the leaf has it but for the whitespace next to a pipe (the
\* variants are its parts without the whitespace at their ends); it is
\* neither the first variant nor the original leaf text.
C28_NoSelection ==
    TOfVariants =>
        LET forms  == pluralForms[EntryKey]
            leaves == MessageLeaves
            parts  == Split(translationMap[EntryKey],
                            NANO_VUE_I18N_PLURAL_SEPARATOR)
        IN /\ result = JSString(translationMap[EntryKey])
           /\ Len(forms) > 1
           /\ Len(parts) = Len(forms)
           /\ \A i \in 1..Len(parts) : Trim(parts[i]) = forms[i]
           /\ result # JSString(forms[1])
           /\ \A i \in 1..Len(leaves) :
                 (Stored(leaves, i) /\ leaves[i].key = EntryKey
                    /\ LastWithKey(leaves, i) = i)
                    => /\ result = JSString(Canonical(leaves[i].value))
                       /\ leaves[i].value.type = "string"
                             => result # JSString(leaves[i].value.str)

\* t on a key of three variants returns all three, with whitespace of the
\* leaf that the variants do not have
C28_Witness ==
    /\ TOfVariants
    /\ Len(pluralForms[EntryKey]) = 3
    /\ result = JSString(translationMap[EntryKey])
    /\ result # JSString(Join(pluralForms[EntryKey],
                              NANO_VUE_I18N_PLURAL_SEPARATOR))
    /\ \E i \in 1..Len(MessageLeaves) :
          /\ MessageLeaves[i].key = EntryKey
          /\ MessageLeaves[i].value.type = "string"

\* the string the latest call interpolates
Template ==
    IF call.op = "t" THEN getTranslation(Instance, call.key).ret
    ELSE tc(Instance, call.key, call.count, NoParams).ret

\* the text s holds the text part at position i
HoldsAt(s, i, part) ==
    /\ i + Len(part) - 1 <= Len(s)
    /\ SubSeq(s, i, i + Len(part) - 1) = part

\* the placeholder of the identifier id
Placeholder(id) == <<"{">> \o id \o <<"}">>

\* the params of the latest call hold an identifier whose value has the form
\* of the placeholder of another identifier they hold, and the template has
\* the placeholder of the first
NestedCase(id, inner) ==
    /\ IsQuery
    /\ call.params.given
    /\ Template.kind = "string"
    /\ id \in DOMAIN call.params.value
    /\ inner \in DOMAIN call.params.value
    /\ call.params.value[id] = Placeholder(inner)
    /\ \E i \in 1..Len(Template.value) :
          HoldsAt(Template.value, i, Placeholder(id))

\* C29: interpolation is a single pass over the template: the result is the
\* template with each placeholder of a key of params replaced by the value,
\* and a value that has the form of a placeholder stands in the result as
\* it is, not expanded again, even when its identifier is a key of params.
C29_SinglePass ==
    (IsQuery /\ call.params.given /\ Template.kind = "string") =>
        /\ result = JSString(OwnKeysReplaced(Template.value, 1,
                                             call.params.value))
        /\ \A id, inner \in DOMAIN call.params.value :
              NestedCase(id, inner) =>
                 /\ \E i \in 1..Len(result.value) :
                       HoldsAt(result.value, i, Placeholder(inner))
                 /\ \A i \in 1..Len(result.value) :
                       ~HoldsAt(result.value, i, Placeholder(id))
                 /\ result # JSString(OwnKeysReplaced(result.value, 1,
                                                      call.params.value))

\* t("a", { n: "{m}", m: "7" }) on the leaf "x{n}" has returned "x{m}"
C29_Witness ==
    /\ call.op = "t"
    /\ call.key = K_a
    /\ NestedCase(<<"n">>, <<"m">>)
    /\ Template = JSString(<<"x", "{", "n", "}">>)
    /\ result = JSString(<<"x", "{", "m", "}">>)

\* an empty string leaf or an empty array
EmptyLeaf(value) ==
    \/ value.type = "string" /\ value.str = << >>
    \/ value.type = "array" /\ value.items = << >>

\* the entry the current locale has for the key of the latest call comes
\* from an empty leaf
CurrentEntryOfEmptyLeaf ==
    LET leaves == MessageLeaves
    IN \E i \in 1..Len(leaves) :
          /\ Stored(leaves, i)
          /\ leaves[i].key = CurKey
          /\ LastWithKey(leaves, i) = i
          /\ EmptyLeaf(leaves[i].value)

\* C30: an entry whose value is the empty string (an empty string leaf or an
\* empty array) counts as present: when the current locale holds it, t(key)
\* returns the empty string, not the entry of the fallback locale, and no
\* missing-translation warning is emitted.
C30_EmptyIsPresent ==
    (call.op = "t" /\ CurrentEntryOfEmptyLeaf) =>
        /\ Has(translationMap, CurKey)
        /\ translationMap[CurKey] = << >>
        /\ result = JSString(<< >>)
        /\ warnings = << >>

\* t on the key of an empty array under fr, where the fallback locale has a
\* non-empty entry and warnings are on, has returned the empty string
C30_Witness ==
    /\ call.op = "t"
    /\ CurrentEntryOfEmptyLeaf
    /\ \E i \in 1..Len(MessageLeaves) :
          /\ MessageLeaves[i].key = CurKey
          /\ MessageLeaves[i].value.type = "array"
    /\ options.missingWarn
    /\ FbKey # CurKey
    /\ Has(translationMap, FbKey)
    /\ translationMap[FbKey] # << >>
    /\ result = JSString(<< >>)
    /\ warnings = << >>
====
